---- MODULE Spec2Model ----
(***************************************************************************)
(* A model of train() in train_cutmix_multiclass.py: the epoch loop with   *)
(* its plain and CutMix training steps, the validation loop, the "best" /  *)
(* "last" checkpoints and the early-stopping counter, together with        *)
(* rand_bbox and the model constructors of model.py.                       *)
(*                                                                         *)
(* Real numbers are kept exact as pairs <<numerator, denominator>>.  A     *)
(* loss is kept as the linear form the code builds: a sequence of terms,   *)
(* each a coefficient times one call of a criterion on a logit group and   *)
(* a label tensor.  The criteria themselves come from loss.py, which the   *)
(* script only calls; they are left uninterpreted.                         *)
(***************************************************************************)
EXTENDS Integers, Sequences, FiniteSets, TLC

\* ---------------------------------------------------------------- bounds
MaxEpochs == 7
MaxVal    == 3
MaxBatch  == 2
MaxDim    == 3
MaxLabel  == 1

\* ------------------------------------------------------ program constants
Patience      == 5
SplitWidths   == <<3, 2, 3>>
\* dataset.num_classes: the script's comment says 18; 8 is the width the
\* split at lines 225/255 needs.  dataset.py decides which one a run gets.
NumClassesValues == {8, 18}

VARIABLES
  args,           \* the run's configuration (argparse values, split sizes, image size)
  patience,       \* train(): patience
  pc,             \* "train" | "val" | "done" | "error"
  epoch,          \* the epoch loop's variable
  idx,            \* index of the next training batch of this epoch
  vidx,           \* index of the next validation batch of this epoch
  counter,        \* train(): counter
  best_val_acc,   \* train(): best_val_acc, a rational
  val_acc,        \* train(): val_acc of the last finished validation, a rational
  val_acc_items,  \* sum of train()'s val_acc_items
  logged,         \* whether train_loss_mean has been assigned
  outs,           \* the last result of model(inputs): its width and its batch
  mask_outs, gender_outs, age_outs,   \* the logit groups of the last split
  step,           \* the locals of the last batch step (losses, lam, bbox)
  best_writes, last_writes,           \* how often best.pth / last.pth were written
  stopped,        \* the epoch loop was left by the break at line 380
  g_correct,      \* history: validation samples of this epoch the model got right
  g_evaluated,    \* history: validation samples of this epoch that were in a batch
  g_best,         \* history: largest val_acc of the finished epochs (0 at first)
  g_streak        \* history: trailing epochs without a strict improvement

vars == <<args, patience, pc, epoch, idx, vidx, counter, best_val_acc, val_acc,
          val_acc_items, logged, outs, mask_outs, gender_outs, age_outs, step,
          best_writes, last_writes, stopped, g_correct, g_evaluated, g_best,
          g_streak>>

\* ------------------------------------------------------------- rationals
NaN == <<0, 0>>
IsNaN(q) == q[2] = 0
\* a > b as Python compares floats: any comparison with nan is False
Gt(a, b) == ~IsNaN(a) /\ ~IsNaN(b) /\ a[1] * b[2] > b[1] * a[2]
RatEq(a, b) == ~IsNaN(a) /\ ~IsNaN(b) /\ a[1] * b[2] = b[1] * a[2]
RatMul(a, b) == <<a[1] * b[1], a[2] * b[2]>>
OneMinus(q) == <<q[2] - q[1], q[2]>>
\* np.sum(items) / n: nan when n is 0 (numpy warns, 0.0 / 0)
Div(s, n) == IF n = 0 THEN NaN ELSE <<s, n>>

Min(a, b) == IF a < b THEN a ELSE b
Max(a, b) == IF a > b THEN a ELSE b

RECURSIVE SumSeq(_)
SumSeq(s) == IF s = <<>> THEN 0 ELSE Head(s) + SumSeq(Tail(s))


\* ------------------------------------------------------------ the inputs
Cfg(nc, ep, b, vb, ntr, nv, li, d2, d3) ==
  [num_classes |-> nc, epochs |-> ep, batch_size |-> b, valid_batch_size |-> vb,
   n_train |-> ntr, n_val |-> nv, log_interval |-> li, D2 |-> d2, D3 |-> d3]

\* Runs long enough for the early stop, on one-sample batches.
LongRuns == { Cfg(8, MaxEpochs, 1, 1, 1, nv, 1, 2, 2) : nv \in 1..2 }
\* One-epoch runs over every validation split size and batch size.
SplitRuns == { Cfg(8, 1, b, b, b, nv, 1, 2, 2) : b \in 1..MaxBatch, nv \in 0..MaxVal }
\* Two epochs of two training batches, logging every batch or every other one.
LogRuns == { Cfg(8, 2, 1, 1, 2, 1, li, 2, 2) : li \in 1..2 }
\* One-epoch runs over every image size.
ImageRuns == { Cfg(8, 1, 1, 1, 1, 1, 1, d2, d3) : d2 \in 1..MaxDim, d3 \in 1..MaxDim }
\* Runs the script cannot finish: an 18-wide model, batch sizes that differ,
\* an epoch shorter than the logging interval, an empty training loader.
OtherRuns == { Cfg(nc, 1, b, vb, ntr, 1, li, 2, 2) :
                 nc \in NumClassesValues, b \in 1..2, vb \in 1..2, ntr \in 0..2, li \in 1..2 }
ArgsSet == LongRuns \cup SplitRuns \cup LogRuns \cup ImageRuns \cup OtherRuns

\* len(train_loader), len(val_loader): both loaders are built with drop_last=True
NTrainBatches == args.n_train \div args.batch_size
NValBatches   == args.n_val \div args.valid_batch_size

\* ------------------------------------------------------- samples, labels
\* The (mask, gender, age) triples the modelled samples carry.
Triple(k) == <<k % 3, k % 2, (2 * k) % 3>>
SampleIds == 0..MaxLabel
Batches(n) == [1..n -> SampleIds]
Channel(name) == CASE name = "mask" -> 1 [] name = "gender" -> 2 [] name = "age" -> 3

\* A label tensor of one task: its channel, whether it is the batch's own order
\* ("a") or the permuted one ("b"), and its values.
LabelsOf(name, ver, batch) ==
  [channel |-> name, ver |-> ver, vals |-> [i \in DOMAIN batch |-> Triple(batch[i])[Channel(name)]]]
\* labels[rand_index]
Permute(batch, rand_index) == [i \in DOMAIN batch |-> batch[rand_index[i]]]
Perms(n) == { p \in [1..n -> 1..n] : \A i, j \in 1..n : p[i] = p[j] => i = j }

\* dataset.encode_multi_class
EncodeMultiClass(m, g, a) == m * 6 + g * 3 + a

\* --------------------------------------------------------------- model.py
\* BaseModel(num_classes): self.fc = nn.Linear(128, num_classes)
ModelWidth(num_classes) == num_classes
\* model(inputs): one row of ModelWidth logits per sample; pred[i] is the triple
\* the row's three heads argmax to.
Forward(src, batch) ==
  [width |-> ModelWidth(args.num_classes), src |-> src,
   preds |-> [i \in DOMAIN batch |-> Triple(batch[i])]]
OutId(o) == [width |-> o.width, src |-> o.src]

\* torch.split(outs, [3, 2, 3], dim=1) raises unless the widths sum to the width
SplitOK(o, widths) == SumSeq(widths) = o.width
Split(o, widths) ==
  [j \in DOMAIN widths |->
     [first |-> 1 + SumSeq(SubSeq(widths, 1, j - 1)), width |-> widths[j], src |-> o.src,
      preds |-> [i \in DOMAIN o.preds |-> o.preds[i][j]]]]
\* torch.argmax(group, dim=1)
Argmax(group) == group.preds

\* ------------------------------------------------------------- rand_bbox
RandBbox(size, r) ==
  LET W == size[3]
      H == size[4]
      cut_size == 0
  IN IF r = 0 THEN <<cut_size, W \div 2, H - cut_size, W - cut_size>>
              ELSE <<cut_size, cut_size, H - cut_size, W \div 2>>

\* lam = 1 - ((bbx2 - bbx1) * (bby2 - bby1) / (inputs.size()[-1] * inputs.size()[-2]))
Lam(bb, size) == <<size[4] * size[3] - (bb[3] - bb[1]) * (bb[4] - bb[2]), size[4] * size[3]>>

\* x[a:b] on an axis of length n (a, b >= 0): Python clips both ends to n
SliceLen(a, b, n) == Max(0, Min(b, n) - Min(a, n))
\* inputs[:, :, bbx1:bbx2, bby1:bby2] = ...: the pixels of one image it assigns
CoveredPixels(bb, size) == SliceLen(bb[1], bb[3], size[3]) * SliceLen(bb[2], bb[4], size[4])

\* ------------------------------------------------------------- the losses
\* criterionK(logits, labels), uninterpreted: the term records the call.
Crit(k, logits, labels) ==
  << [c |-> <<1, 1>>, crit |-> k,
      logits |-> [first |-> logits.first, width |-> logits.width, src |-> logits.src],
      labels |-> [channel |-> labels.channel, ver |-> labels.ver]] >>
\* A criterion raises when the batch sizes differ or a target is no column.
CritOK(logits, labels) ==
  /\ Len(logits.preds) = Len(labels.vals)
  /\ \A i \in DOMAIN labels.vals : labels.vals[i] < logits.width
Times(q, L) == [i \in DOMAIN L |-> [L[i] EXCEPT !.c = RatMul(q, @)]]
Plus(a, b) == a \o b

\* loss = mask_loss + gender_loss + 1.5*age_loss
TrainLoss(m, g, a) == Plus(Plus(m, g), Times(<<3, 2>>, a))
\* loss_item = mask_loss_item + gender_loss_item + age_loss_item
ValLossItem(m, g, a) == Plus(Plus(m, g), a)
\* criterion(outs, label_a)*lam + criterion(outs, label_b)*(1-lam)
MixLoss(k, logits, la, lb, lam) ==
  Plus(Times(lam, Crit(k, logits, la)), Times(OneMinus(lam), Crit(k, logits, lb)))


\* ------------------------------------------------------------------ state
\* inputs.size()
Size == <<args.batch_size, 3, args.D2, args.D3>>
Src(phase, i) == [phase |-> phase, idx |-> i]
\* the values of names the run has not assigned yet
UndefinedOuts  == [width |-> 0, src |-> Src("none", 0)]
UndefinedGroup == [first |-> 0, width |-> 0, src |-> Src("none", 0), preds |-> <<>>]
StepRec(kind, m, g, a, l, bb, lam) ==
  [kind |-> kind, mask_loss |-> m, gender_loss |-> g, age_loss |-> a, loss |-> l,
   bbox |-> bb, lam |-> lam]
NoStep == StepRec("none", <<>>, <<>>, <<>>, <<>>, <<0, 0, 0, 0>>, <<1, 1>>)

InitWith(p) ==
  /\ args \in ArgsSet
  /\ patience = p
  /\ pc = IF args.epochs > 0 THEN "train" ELSE "done"
  /\ epoch = 0
  /\ idx = 0
  /\ vidx = 0
  /\ counter = 0
  /\ best_val_acc = <<0, 1>>
  /\ val_acc = <<0, 1>>
  /\ val_acc_items = 0
  /\ logged = FALSE
  /\ outs = UndefinedOuts
  /\ mask_outs = UndefinedGroup
  /\ gender_outs = UndefinedGroup
  /\ age_outs = UndefinedGroup
  /\ step = NoStep
  /\ best_writes = 0
  /\ last_writes = 0
  /\ stopped = FALSE
  /\ g_correct = 0
  /\ g_evaluated = 0
  /\ g_best = <<0, 1>>
  /\ g_streak = 0

Init == InitWith(Patience)

\* if (idx + 1) % args.log_interval == 0: train_loss_mean = np.mean(train_loss)
LoggedAfter == logged \/ (idx + 1) % args.log_interval = 0

epochState == <<args, patience, epoch, vidx, counter, best_val_acc, val_acc, val_acc_items,
                best_writes, last_writes, stopped, g_correct, g_evaluated, g_best, g_streak>>

\* The plain step (np.random.rand() < 0.8): forward, split, three losses, sum.
TrainBatchPlain ==
  /\ pc = "train"
  /\ idx < NTrainBatches
  /\ \E batch \in Batches(args.batch_size), seen \in Batches(args.batch_size) :
       LET o  == Forward(Src("train", idx), seen)
           gr == Split(o, SplitWidths)
           ml == LabelsOf("mask", "a", batch)
           gl == LabelsOf("gender", "a", batch)
           al == LabelsOf("age", "a", batch)
           mask_loss   == Crit(1, gr[1], ml)
           gender_loss == Crit(2, gr[2], gl)
           age_loss    == Crit(3, gr[3], al)
       IN /\ outs' = OutId(o)
          /\ IF ~SplitOK(o, SplitWidths)
               THEN /\ pc' = "error"
                    /\ UNCHANGED <<mask_outs, gender_outs, age_outs, step, idx, logged>>
               ELSE /\ mask_outs' = gr[1]
                    /\ gender_outs' = gr[2]
                    /\ age_outs' = gr[3]
                    /\ IF CritOK(gr[1], ml) /\ CritOK(gr[2], gl) /\ CritOK(gr[3], al)
                         THEN /\ step' = StepRec("plain", mask_loss, gender_loss, age_loss,
                                                 TrainLoss(mask_loss, gender_loss, age_loss),
                                                 <<0, 0, 0, 0>>, <<1, 1>>)
                              /\ idx' = idx + 1
                              /\ logged' = LoggedAfter
                              /\ pc' = pc
                         ELSE /\ pc' = "error"
                              /\ UNCHANGED <<step, idx, logged>>
  /\ UNCHANGED epochState

\* The mixed step: permute, paste the partner's rectangle, forward, split, the
\* three losses mixed by lam, sum.
TrainBatchMixed ==
  /\ pc = "train"
  /\ idx < NTrainBatches
  /\ \E batch \in Batches(args.batch_size), seen \in Batches(args.batch_size),
        rand_index \in Perms(args.batch_size), r \in {0, 1} :
       LET mask_outs_label_a   == LabelsOf("mask", "a", batch)
           mask_outs_label_b   == LabelsOf("mask", "b", Permute(batch, rand_index))
           gender_outs_label_a == LabelsOf("gender", "a", batch)
           gender_outs_label_b == LabelsOf("gender", "b", Permute(batch, rand_index))
           age_outs_label_a    == LabelsOf("age", "a", batch)
           age_outs_label_b    == LabelsOf("age", "b", Permute(batch, rand_index))
           bb  == RandBbox(Size, r)
           lam == Lam(bb, Size)
           o   == Forward(Src("train", idx), seen)
           gr  == Split(o, SplitWidths)
           mask_loss   == MixLoss(1, gr[1], mask_outs_label_a, mask_outs_label_b, lam)
           gender_loss == MixLoss(2, gr[2], gender_outs_label_a, gender_outs_label_b, lam)
           age_loss    == MixLoss(3, gr[2], age_outs_label_a, age_outs_label_b, lam)
       IN /\ outs' = OutId(o)
          /\ IF ~SplitOK(o, SplitWidths)
               THEN /\ pc' = "error"
                    /\ UNCHANGED <<mask_outs, gender_outs, age_outs, step, idx, logged>>
               ELSE /\ mask_outs' = gr[1]
                    /\ gender_outs' = gr[2]
                    /\ age_outs' = gr[3]
                    /\ IF /\ CritOK(gr[1], mask_outs_label_a) /\ CritOK(gr[1], mask_outs_label_b)
                          /\ CritOK(gr[2], gender_outs_label_a) /\ CritOK(gr[2], gender_outs_label_b)
                          /\ CritOK(gr[2], age_outs_label_a) /\ CritOK(gr[2], age_outs_label_b)
                         THEN /\ step' = StepRec("mixed", mask_loss, gender_loss, age_loss,
                                                 TrainLoss(mask_loss, gender_loss, age_loss),
                                                 bb, lam)
                              /\ idx' = idx + 1
                              /\ logged' = LoggedAfter
                              /\ pc' = pc
                         ELSE /\ pc' = "error"
                              /\ UNCHANGED <<step, idx, logged>>
  /\ UNCHANGED epochState

\* After the last batch: wandb.log of train_loss_mean (a NameError if no batch
\* of the run reached the logging interval), scheduler.step(), and the empty
\* accumulators of the validation loop.
EndTrainLoop ==
  /\ pc = "train"
  /\ idx = NTrainBatches
  /\ IF logged
       THEN /\ pc' = "val"
            /\ vidx' = 0
            /\ val_acc_items' = 0
            /\ g_correct' = 0
            /\ g_evaluated' = 0
       ELSE /\ pc' = "error"
            /\ UNCHANGED <<vidx, val_acc_items, g_correct, g_evaluated>>
  /\ UNCHANGED <<args, patience, epoch, idx, counter, best_val_acc, val_acc, logged, outs,
                 mask_outs, gender_outs, age_outs, step, best_writes, last_writes, stopped,
                 g_best, g_streak>>


\* (labels == preds).sum().item() on the encoded joint classes
AccItem(batch, mp, gp, ap) ==
  Cardinality({ i \in DOMAIN batch :
     EncodeMultiClass(Triple(batch[i])[1], Triple(batch[i])[2], Triple(batch[i])[3])
       = EncodeMultiClass(mp[i], gp[i], ap[i]) })
\* the samples of a batch whose three predicted labels are all right
Correct(batch, seen) ==
  Cardinality({ i \in DOMAIN batch : Triple(seen[i]) = Triple(batch[i]) })

\* One validation batch: model(inputs), then the losses, predictions and
\* matches from mask_outs, gender_outs and age_outs.
ValBatch ==
  /\ pc = "val"
  /\ vidx < NValBatches
  /\ \E batch \in Batches(args.valid_batch_size), seen \in Batches(args.valid_batch_size) :
       LET o  == Forward(Src("val", vidx), seen)
           ml == LabelsOf("mask", "a", batch)
           gl == LabelsOf("gender", "a", batch)
           al == LabelsOf("age", "a", batch)
       IN /\ outs' = OutId(o)
          /\ IF /\ mask_outs # UndefinedGroup
                /\ CritOK(mask_outs, ml) /\ CritOK(gender_outs, gl) /\ CritOK(age_outs, al)
               THEN LET mask_loss_item   == Crit(1, mask_outs, ml)
                        gender_loss_item == Crit(2, gender_outs, gl)
                        age_loss_item    == Crit(3, age_outs, al)
                        mask_preds   == Argmax(mask_outs)
                        gender_preds == Argmax(gender_outs)
                        age_preds    == Argmax(age_outs)
                    IN /\ step' = StepRec("val", mask_loss_item, gender_loss_item, age_loss_item,
                                    ValLossItem(mask_loss_item, gender_loss_item, age_loss_item),
                                    <<0, 0, 0, 0>>, <<1, 1>>)
                       /\ val_acc_items' = val_acc_items + AccItem(batch, mask_preds, gender_preds, age_preds)
                       /\ g_correct' = g_correct + Correct(batch, seen)
                       /\ g_evaluated' = g_evaluated + args.valid_batch_size
                       /\ vidx' = vidx + 1
                       /\ pc' = pc
               ELSE /\ pc' = "error"
                    /\ UNCHANGED <<step, val_acc_items, g_correct, g_evaluated, vidx>>
  /\ UNCHANGED <<args, patience, epoch, idx, counter, best_val_acc, val_acc, logged,
                 mask_outs, gender_outs, age_outs, best_writes, last_writes, stopped,
                 g_best, g_streak>>

\* val_acc = np.sum(val_acc_items) / len(val_set)
ValAcc(items, n_val) == Div(items, n_val)
\* faulty variant: val_acc >= best_val_acc
IsNewBest_GreaterOrEqual(acc, best) == ~IsNaN(acc) /\ ~Gt(best, acc)
\* if val_acc > best_val_acc
IsNewBest(acc, best) == Gt(acc, best)
\* faulty variant: the counter is never incremented
CounterAfter_NoIncrement(improved, c) == IF improved THEN 0 ELSE c
\* counter = 0 / counter += 1
CounterAfter(improved, c) == IF improved THEN 0 ELSE c + 1
\* torch.save(model.state_dict(), f"{save_dir}/best.pth"), inside the if
BestWritesAfter(improved, n) == IF improved THEN n + 1 ELSE n
\* faulty variant: last.pth saved in the else branch only
LastWritesAfter_ElseOnly(improved, n) == IF improved THEN n ELSE n + 1
\* torch.save(model.state_dict(), f"{save_dir}/last.pth"), every epoch
LastWritesAfter(improved, n) == n + 1
\* faulty variant: counter >= patience
EarlyStop_GreaterOrEqual(c, p) == c >= p
\* if counter > patience: break
EarlyStop(c, p) == c > p

\* After the last validation batch: val_acc, the best checkpoint and the
\* counter, the last checkpoint, the early stop, and the loop's next epoch.
EndValidation ==
  /\ pc = "val"
  /\ vidx = NValBatches
  /\ LET acc      == ValAcc(val_acc_items, args.n_val)
         improved == IsNewBest(acc, best_val_acc)
         c        == CounterAfter(improved, counter)
     IN /\ val_acc' = acc
        /\ best_val_acc' = IF improved THEN acc ELSE best_val_acc
        /\ best_writes' = BestWritesAfter(improved, best_writes)
        /\ counter' = c
        /\ last_writes' = LastWritesAfter(improved, last_writes)
        /\ g_streak' = IF Gt(acc, g_best) THEN 0 ELSE g_streak + 1
        /\ g_best' = IF Gt(acc, g_best) THEN acc ELSE g_best
        /\ IF EarlyStop(c, patience)
             THEN /\ stopped' = TRUE
                  /\ pc' = "done"
                  /\ UNCHANGED <<epoch, idx>>
             ELSE /\ stopped' = FALSE
                  /\ epoch' = epoch + 1
                  /\ idx' = 0
                  /\ pc' = IF epoch + 1 < args.epochs THEN "train" ELSE "done"
  /\ UNCHANGED <<args, patience, vidx, val_acc_items, logged, outs, mask_outs, gender_outs,
                 age_outs, step, g_correct, g_evaluated>>

Next ==
  \/ TrainBatchPlain
  \/ TrainBatchMixed
  \/ EndTrainLoop
  \/ ValBatch
  \/ EndValidation

Spec == Init /\ [][Next]_vars

\* The same run with patience set to 0 at line 184.
InitPatience0 == InitWith(0)
SpecPatience0 == InitPatience0 /\ [][Next]_vars


\* ------------------------------------------------------------- the claims
\* epochs whose validation and checkpoint code has run to its end
EpochsRun == IF stopped THEN epoch + 1 ELSE epoch
\* the last validation's figures are final and not yet reset by the next one
ValidationDone == EpochsRun >= 1 /\ pc \in {"train", "done"}
Zero == <<0, 1>>
GroupId(g) == [first |-> g.first, width |-> g.width, src |-> g.src]

\* C1: best.pth is written, and best_val_acc changed, only by an epoch whose
\* validation accuracy is strictly greater than the best accuracy of the epochs
\* before it (0 at first); an epoch with an equal or lower accuracy writes no
\* best.pth and leaves best_val_acc as it was.
C1_BestOnlyOnStrictImprovement ==
  [][ /\ (best_writes' # best_writes =>
            /\ Gt(val_acc', g_best)
            /\ best_writes' = best_writes + 1
            /\ best_val_acc' = val_acc')
      /\ (best_val_acc' # best_val_acc => Gt(val_acc', g_best))
      /\ (last_writes' # last_writes /\ ~Gt(val_acc', g_best) =>
            best_writes' = best_writes /\ best_val_acc' = best_val_acc) ]_vars
\* an epoch has matched the earlier best exactly and best.pth was not rewritten
C1_Witness ==
  /\ EpochsRun = 2
  /\ best_writes = 1
  /\ Gt(best_val_acc, Zero)
  /\ RatEq(val_acc, best_val_acc)
  /\ counter = 1

\* C2: the loop is left by the break exactly when, after an epoch's update, the
\* number of trailing epochs without a strict improvement exceeds patience; it is
\* otherwise left only when the epochs are exhausted.
C2_EarlyStopExactlyAbovePatience ==
  /\ counter = g_streak
  /\ stopped <=> g_streak > patience
  /\ stopped => pc = "done" /\ g_streak = patience + 1
  /\ (pc = "done" /\ ~stopped) => epoch = args.epochs
\* a run that went through counter = patience without stopping and stopped one
\* epoch later, with epochs still left
C2_Witness ==
  /\ stopped
  /\ best_writes = 1
  /\ last_writes = patience + 2
  /\ g_streak = patience + 1
  /\ epoch + 1 <= args.epochs

\* C3: the reported val_acc is the number of validation samples whose joint
\* prediction is right over the size of the validation split, and every sample
\* of the split was evaluated.
C3_ValAccIsCorrectOverSplit ==
  (ValidationDone /\ args.n_val > 0) =>
     /\ val_acc = <<g_correct, args.n_val>>
     /\ g_evaluated = args.n_val

\* C4: in every training forward pass the split widths 3 + 2 + 3 sum to the
\* width of the model's output.
C4_SplitWidthsSumToModelWidth ==
  outs.src.phase = "train" => SumSeq(SplitWidths) = outs.width

\* C5: the rectangle of a mixed step lies inside the image on the axes it is
\* applied to: bbx on dimension 2, bby on dimension 3.
C5_BboxWithinImage ==
  step.kind = "mixed" =>
     /\ 0 <= step.bbox[1] /\ step.bbox[1] <= step.bbox[3] /\ step.bbox[3] <= args.D2
     /\ 0 <= step.bbox[2] /\ step.bbox[2] <= step.bbox[4] /\ step.bbox[4] <= args.D3

\* C6: lam of a mixed step is the fraction of the image's pixels the paste left
\* alone, 1 - lam the fraction it overwrote, and lam lies in [0, 1].
C6_LamIsUncoveredFraction ==
  step.kind = "mixed" =>
     LET total   == args.D2 * args.D3
         covered == CoveredPixels(step.bbox, Size)
     IN /\ RatEq(step.lam, <<total - covered, total>>)
        /\ RatEq(OneMinus(step.lam), <<covered, total>>)
        /\ 0 <= step.lam[1] /\ step.lam[1] <= step.lam[2]

\* the two linear forms have the same calls with equal coefficients
SameLoss(x, y) ==
  /\ Len(x) = Len(y)
  /\ \A i \in DOMAIN x :
       /\ RatEq(x[i].c, y[i].c)
       /\ x[i].crit = y[i].crit /\ x[i].logits = y[i].logits /\ x[i].labels = y[i].labels
Weighted(wm, m, wg, g, wa, a) == Times(wm, m) \o Times(wg, g) \o Times(wa, a)

\* C7: in the plain step, the mixed step and the validation step the combined
\* loss is 1 * mask_loss + 1 * gender_loss + 1.5 * age_loss.
C7_LossWeightsFixed ==
  step.kind \in {"plain", "mixed", "val"} =>
     SameLoss(step.loss,
              Weighted(<<1, 1>>, step.mask_loss, <<1, 1>>, step.gender_loss,
                       <<3, 2>>, step.age_loss))

\* C8 as stated: a run that completed an epoch leaves both best.pth and last.pth.
C8_BothCheckpointsExist ==
  (pc = "done" /\ EpochsRun >= 1) => (best_writes >= 1 /\ last_writes >= 1)
\* C8 as amended: a run that completed an epoch leaves last.pth, written once per
\* epoch, and leaves best.pth exactly when some epoch's validation accuracy was
\* greater than 0.
C8_LastAlwaysBestIfPositive ==
  (pc = "done" /\ EpochsRun >= 1) =>
     /\ last_writes = EpochsRun
     /\ (best_writes >= 1 <=> Gt(g_best, Zero))
\* a run stopped early without ever writing best.pth
C8_Witness ==
  /\ pc = "done"
  /\ stopped
  /\ best_writes = 0
  /\ last_writes = patience + 1

FromOwn(loss, g, ch) ==
  \A i \in DOMAIN loss : loss[i].logits = GroupId(g) /\ loss[i].labels.channel = ch

\* C10: in the plain and the mixed step each task's loss is computed from that
\* task's logit group and that task's labels.
C10_LossesFromOwnLogitsAndLabels ==
  (step.kind \in {"plain", "mixed"} /\ pc # "error") =>
     /\ FromOwn(step.mask_loss, mask_outs, "mask")
     /\ FromOwn(step.gender_loss, gender_outs, "gender")
     /\ FromOwn(step.age_loss, age_outs, "age")

\* C11: what a validation batch records (the per-task losses, the per-task
\* predictions and the joint matches) is computed from the model's output on
\* that validation batch, never from logits of an earlier training batch, so
\* the matches counted are those of the model on the validation samples.
C11_ValidationUsesOwnBatchOutput ==
  (step.kind = "val" /\ pc # "error") =>
     /\ outs.src.phase = "val"
     /\ \A i \in DOMAIN step.loss : step.loss[i].logits.src = outs.src
     /\ mask_outs.src = outs.src
     /\ gender_outs.src = outs.src
     /\ age_outs.src = outs.src
     /\ val_acc_items = g_correct

====
